---------------------------- MODULE Spec2Model ----------------------------
(***************************************************************************)
(* State-machine model of the two resource controllers of the provider:   *)
(* the hook (src/auth0/resource_auth0_hook.go) with its secret            *)
(* reconciliation, and the log stream (src/unnamed/part_000) with its      *)
(* sink variant mapping.                                                   *)
(*                                                                         *)
(* One behaviour follows ONE resource instance, a hook or a log stream     *)
(* (variable kind, chosen in Init): the handlers of the two resources      *)
(* share no state.  Every handler is one action; the answers of the        *)
(* remote management API are inputs of the action.                         *)
(***************************************************************************)
EXTENDS Naturals, Sequences, FiniteSets, TLC

VARIABLES
    kind,           \* "hook" or "log_stream": the resource this behaviour follows
    id,             \* d.Id() as the last handler left it
    inState,        \* the framework holds the resource in its state
    tainted,        \* Create returned an error after d.SetId: the resource is tainted
    remoteExists,   \* the remote entity exists
    remoteSecrets,  \* remote side of a hook: the secret key set
    stateSecrets,   \* "secrets" of the prior state, what d.HasChange compares with
    op,             \* the handler that just ran ("none": the framework took its result)
    calls,          \* the remote calls that handler issued, in order
    ret,            \* the error that handler returned (Nil: none)
    plan,           \* the reconciliation that handler ran (locals of upsertHookSecrets)
    prevAborted,    \* the apply before the last handler ended in an aborted reconciliation
    config,         \* log stream: the declared "type" and "sink" block of the last handler
    lsRemote,       \* log stream: the remote entity, its type and sink
    lsState,        \* log stream: "type" and "sink" as the resource data holds them
    built,          \* log stream: what expandLogStream built in that handler
    flat            \* log stream: what flattenLogStreamSink returned in that handler

vars == <<kind, id, inState, tainted, remoteExists, remoteSecrets, stateSecrets,
          op, calls, ret, plan, prevAborted, config, lsRemote, lsState, built, flat>>

hookVars == <<remoteSecrets, stateSecrets, plan, prevAborted>>

lsVars == <<config, lsRemote, lsState, built, flat>>

---------------------------------------------------------------------------
(* Bounds and value sets *)

\* number of distinct secret names
NumKeys == 3

KeyNames == <<"a", "b", "c", "d", "e">>

Keys == {KeyNames[i] : i \in 1..NumKeys}

\* secret values are opaque strings: two tell a changed value from an unchanged one
Values == {"v1", "v2"}

\* map[string]interface{} with string values (schema: TypeMap of TypeString)
AllMaps == UNION {[S -> Values] : S \in SUBSET Keys}

\* The maps a configuration is tried with.  No handler looks into a value, a
\* value only makes a map differ from the one applied before: one entry with
\* the second value is enough for that, so the maps with at most one such
\* entry are the inputs.
Maps == {m \in AllMaps : Cardinality({k \in DOMAIN m : m[k] = "v2"}) <= 1}

EmptyMap == [k \in {} |-> "v1"]

---------------------------------------------------------------------------
(* Errors of the remote API *)

StatusNotFound == 404

\* error == nil
Nil == [type |-> "nil", status |-> 0]

\* a management.Error with HTTP status 404
NotFound == [type |-> "management.Error", status |-> StatusNotFound]

\* a management.Error with another status
ServerError == [type |-> "management.Error", status |-> 500]

\* an error that is no management.Error (transport)
TransportError == [type |-> "net.Error", status |-> 0]

OtherErrors == {ServerError, TransportError}

\* err.(management.Error) succeeded and mErr.Status() == http.StatusNotFound
IsNotFound(err) == err.type = "management.Error" /\ err.status = StatusNotFound

\* The remote API's answers to one handler: the call that fails (if any) with
\* its error, the answer of Hook.Secrets, "keys" (a key set), "nil" (no
\* error and no key set) or "err", and the call (if any) just before which
\* the entity is removed out of band while the handler is between two calls.
AnswerFields(sites, reads, goneSites) ==
    [failAt : {"none"} \cup sites, err : OtherErrors, rd : reads,
     gone : {"none"} \cup goneSites]

\* the position of a call in its handler: the remote create, update or
\* delete, then the calls of upsertHookSecrets in their order, then the read
CallOrder(c) ==
    IF c \in {"Create", "Update", "Delete"} THEN 1
    ELSE IF c = "Secrets" THEN 2
    ELSE IF c = "RemoveSecrets" THEN 3
    ELSE IF c = "UpdateSecrets" THEN 4
    ELSE IF c = "CreateSecrets" THEN 5
    ELSE 6

\* the entity was removed out of band before the call c of this handler
Gone(o, c) == o.gone # "none" /\ CallOrder(c) >= CallOrder(o.gone)

\* the entity is there when the call c is made
Present(exists, o, c) == exists /\ ~Gone(o, c)

\* One description per course of a handler: a call fails with its own error
\* only while the entity is there, the error matters only if a call returns
\* it, and the answer of Hook.Secrets only if it is not a 404.
Answers(sites, reads, goneSites) ==
    {o \in AnswerFields(sites, reads, goneSites) :
        /\ o.failAt # "none" => ~Gone(o, o.failAt)
        /\ o.rd # "keys" => ~Gone(o, "Secrets")
        /\ (o.failAt = "none" /\ o.rd # "err") => o.err = ServerError}

\* An answer is chosen only for a call the handler issues: o is the one
\* description of the answers the calls of run r received.
Canonical(o, r) ==
    LET failed(c) == \E i \in DOMAIN r.calls : r.calls[i].api = c /\ r.calls[i].res = o.err
        asked(c)  == \E i \in DOMAIN r.calls : r.calls[i].api = c /\ r.calls[i].res # NotFound
        removed(c) == \E i \in DOMAIN r.calls : r.calls[i].api = c /\ r.calls[i].res = NotFound
    IN  /\ o.failAt # "none" => failed(o.failAt)
        /\ o.gone # "none" => removed(o.gone)
        /\ o.rd # "keys" => asked("Secrets")
        /\ (o.failAt = "none" /\ o.rd # "err") => o.err = ServerError

\* the answer to call c on an entity that exists or not
Answer(exists, o, c) ==
    IF ~Present(exists, o, c) THEN NotFound
    ELSE IF o.failAt = c THEN o.err ELSE Nil

Call(api, keys, vals, res) == [api |-> api, keys |-> keys, vals |-> vals, res |-> res]

NoPlan == [ran |-> FALSE, isNew |-> FALSE, hasChange |-> FALSE, desired |-> EmptyMap,
           read |-> "none", keysBefore |-> {}, remove |-> {}, update |-> EmptyMap,
           add |-> EmptyMap, ret |-> Nil, keysAfter |-> {}]

---------------------------------------------------------------------------
(* Hook: secret reconciliation *)

\* toHookSecrets: keeps the entries whose value is a string
toHookSecrets(val) ==
    [key \in {k \in DOMAIN val : val[k] \in STRING} |-> val[key]]

\* reconcile with the else branch of the first loop taken for every key:
\* a key found remotely is classified as an addition too
reconcileAddFound(keysBefore, secrets) ==
    [remove |-> {b \in keysBefore : b \notin DOMAIN secrets},
     update |-> [k \in DOMAIN secrets \cap keysBefore |-> secrets[k]],
     add    |-> secrets]

\* reconcile without its second loop: no key is ever removed
reconcileNoRemove(keysBefore, secrets) ==
    [remove |-> {},
     update |-> [k \in DOMAIN secrets \cap keysBefore |-> secrets[k]],
     add    |-> [k \in DOMAIN secrets \ keysBefore |-> secrets[k]]]

\* reconcile whose second loop looks for the key in the empty keysNow (the
\* slice before the first loop filled it): every remote key is removed
reconcileRemoveAll(keysBefore, secrets) ==
    [remove |-> keysBefore,
     update |-> [k \in DOMAIN secrets \cap keysBefore |-> secrets[k]],
     add    |-> [k \in DOMAIN secrets \ keysBefore |-> secrets[k]]]

\* the classification loops of upsertHookSecrets
reconcile(keysBefore, secrets) ==
    LET keysNow == DOMAIN secrets
        foundBefore(k) == \E beforeKey \in keysBefore : beforeKey = k
        foundNow(beforeKey) == \E nowKey \in keysNow : beforeKey = nowKey
    IN  [remove |-> {beforeKey \in keysBefore : ~foundNow(beforeKey)},
         update |-> [k \in {x \in keysNow : foundBefore(x)} |-> secrets[k]],
         add    |-> [k \in {x \in keysNow : ~foundBefore(x)} |-> secrets[k]]]

\* the else branch leaving secretsToAdd unassigned
addAllNone(secrets) == [remove |-> {}, update |-> EmptyMap, add |-> EmptyMap]

\* the plan when the remote keys are unknown: else branch, secretsToAdd = secrets
addAll(secrets) == [remove |-> {}, update |-> EmptyMap, add |-> secrets]

\* Issue without the early return on an error: the next call is issued after
\* a failed one
IssueNoAbort(acc, cond, api, keys, vals, res) ==
    IF ~cond THEN acc
    ELSE [calls  |-> Append(acc.calls, Call(api, keys, vals, res)),
          ret    |-> res,
          remote |-> IF res # Nil THEN acc.remote
                     ELSE IF api = "RemoveSecrets" THEN acc.remote \ keys
                     ELSE IF api = "CreateSecrets" THEN acc.remote \cup keys
                     ELSE acc.remote]

\* One remote call of a handler: skipped once an error was returned or when
\* its condition is false.  RemoveSecrets deletes its keys, CreateSecrets adds
\* its keys, UpdateSecrets changes values only; a call that fails leaves the
\* remote side as it was.
Issue(acc, cond, api, keys, vals, res) ==
    IF acc.ret # Nil \/ ~cond THEN acc
    ELSE [calls  |-> Append(acc.calls, Call(api, keys, vals, res)),
          ret    |-> res,
          remote |-> IF res # Nil THEN acc.remote
                     ELSE IF api = "RemoveSecrets" THEN acc.remote \ keys
                     ELSE IF api = "CreateSecrets" THEN acc.remote \cup keys
                     ELSE acc.remote]

\* applyPlan without the len(...) > 0 guards: every call is issued, empty or not
applyPlanNoGuard(p, known, a0, exists, o) ==
    Issue(Issue(Issue(a0,
                      known, "RemoveSecrets",
                      p.remove, EmptyMap, Answer(exists, o, "RemoveSecrets")),
                known, "UpdateSecrets",
                DOMAIN p.update, p.update, Answer(exists, o, "UpdateSecrets")),
          TRUE, "CreateSecrets",
          DOMAIN p.add, p.add, Answer(exists, o, "CreateSecrets"))

\* the calls of upsertHookSecrets for the plan p: remove, then update (both
\* only when the remote keys were read), then add
applyPlan(p, known, a0, exists, o) ==
    Issue(Issue(Issue(a0,
                      known /\ Cardinality(p.remove) > 0, "RemoveSecrets",
                      p.remove, EmptyMap, Answer(exists, o, "RemoveSecrets")),
                known /\ Cardinality(DOMAIN p.update) > 0, "UpdateSecrets",
                DOMAIN toHookSecrets(p.update), toHookSecrets(p.update),
                Answer(exists, o, "UpdateSecrets")),
          Cardinality(DOMAIN p.add) > 0, "CreateSecrets",
          DOMAIN toHookSecrets(p.add), toHookSecrets(p.add),
          Answer(exists, o, "CreateSecrets"))

\* the record upsertHookSecrets leaves: its calls, its error, the remote keys
\* and its locals
upsertResult(a, p, rd, isNew, hasChange, secrets, remote) ==
    [calls  |-> a.calls,
     ret    |-> a.ret,
     remote |-> a.remote,
     plan   |-> [ran |-> TRUE, isNew |-> isNew, hasChange |-> hasChange,
                 desired |-> secrets, read |-> rd, keysBefore |-> remote,
                 remove |-> p.remove, update |-> p.update, add |-> p.add,
                 ret |-> a.ret, keysAfter |-> a.remote]]

\* the branch on the answer rd of api.Hook.Secrets
upsertWith(p, rd, rdErr, isNew, hasChange, secrets, remote, exists, o) ==
    upsertResult(applyPlan(p, rd = "keys",
                           [calls  |-> <<Call("Secrets", {}, EmptyMap, rdErr)>>,
                            ret    |-> Nil,
                            remote |-> remote],
                           exists, o),
                 p, rd, isNew, hasChange, secrets, remote)

\* upsertHookSecrets without the guard d.IsNewResource() || d.HasChange("secrets"):
\* the reconciliation runs on every create and update
upsertHookSecretsAlways(isNew, hasChange, secrets, remote, exists, o) ==
    IF Present(exists, o, "Secrets") /\ o.rd = "keys"
    THEN upsertWith(reconcile(remote, secrets), "keys", Nil,
                    isNew, hasChange, secrets, remote, exists, o)
    ELSE upsertWith(addAll(secrets),
                    IF Present(exists, o, "Secrets") THEN o.rd ELSE "err",
                    IF ~Present(exists, o, "Secrets") THEN NotFound
                    ELSE IF o.rd = "err" THEN o.err ELSE Nil,
                    isNew, hasChange, secrets, remote, exists, o)

\* upsertHookSecrets: nothing is done unless the hook is new or "secrets" changed
upsertHookSecrets(isNew, hasChange, secrets, remote, exists, o) ==
    IF ~(isNew \/ hasChange)
    THEN [calls |-> <<>>, ret |-> Nil, remote |-> remote,
          plan |-> [NoPlan EXCEPT !.desired = secrets]]
    ELSE IF Present(exists, o, "Secrets") /\ o.rd = "keys"
         THEN upsertWith(reconcile(remote, secrets), "keys", Nil,
                         isNew, hasChange, secrets, remote, exists, o)
         ELSE upsertWith(addAll(secrets),
                         IF Present(exists, o, "Secrets") THEN o.rd ELSE "err",
                         IF ~Present(exists, o, "Secrets") THEN NotFound
                         ELSE IF o.rd = "err" THEN o.err ELSE Nil,
                         isNew, hasChange, secrets, remote, exists, o)

---------------------------------------------------------------------------
(* Hook: handlers *)

\* the id the remote side assigns to a created entity
NewId == "id-1"

\* readHook / readLogStream up to the error handling: a 404 clears the id and
\* is no error, any other error is returned
readAnswer(acc, res) ==
    [acc EXCEPT !.calls = Append(@, Call("Read", {}, EmptyMap, res)),
                !.ret   = IF IsNotFound(res) THEN Nil ELSE res,
                !.id    = IF IsNotFound(res) THEN "" ELSE @]

\* readResource called whatever the calls before it returned: the handler
\* lacks the return of the error before its final read
readResourceAlways(acc, o) == readAnswer(acc, Answer(acc.exists, o, "Read"))

\* the final readHook / readLogStream of a handler, reached only when no call
\* before it returned an error
readResource(acc, o) ==
    IF acc.ret # Nil THEN acc ELSE readAnswer(acc, Answer(acc.exists, o, "Read"))

\* upsertHookSecrets as a step of createHook / updateHook
upsertMerge(acc, u) ==
    [acc EXCEPT !.calls = @ \o u.calls, !.ret = u.ret,
                !.remote = u.remote, !.plan = u.plan]

upsertStep(acc, isNew, hasChange, secrets, o) ==
    IF acc.ret # Nil THEN acc
    ELSE upsertMerge(acc, upsertHookSecrets(isNew, hasChange, secrets,
                                            acc.remote, acc.exists, o))

\* the remote create or update that opens createHook / updateHook
firstCall(api, res, idAfter, exists, remote) ==
    [calls |-> <<Call(api, {}, EmptyMap, res)>>, ret |-> res,
     id |-> idAfter, exists |-> exists, remote |-> remote, plan |-> NoPlan]

\* the remote side once the handler returned: an entity removed out of band
\* between two of its calls is gone, with its secrets
settle(r, o) ==
    IF o.gone = "none" THEN r ELSE [r EXCEPT !.exists = FALSE, !.remote = {}]

\* the calls of a hook handler after its first one, before any of which the
\* hook can be removed out of band
HookLaterCalls == {"Secrets", "RemoveSecrets", "UpdateSecrets", "CreateSecrets", "Read"}

\* createHook with the remote answers o, from a fresh ResourceData
createHookRun(secrets, o) ==
    settle(readResource(
        upsertStep(
            IF o.failAt = "Create"
            THEN firstCall("Create", o.err, "", FALSE, {})
            ELSE firstCall("Create", Nil, NewId, TRUE, {}),
            TRUE, secrets # EmptyMap, secrets, o),
        o), o)

\* updateHook with the remote answers o
updateHookRun(secrets, o) ==
    settle(readResource(
        upsertStep(
            firstCall("Update", Answer(remoteExists, o, "Update"),
                      id, remoteExists, remoteSecrets),
            FALSE, secrets # stateSecrets, secrets, o),
        o), o)

\* readHook / readLogStream called on their own
readRun(o) ==
    readResource([calls |-> <<>>, ret |-> Nil, id |-> id, exists |-> remoteExists,
                  remote |-> remoteSecrets, plan |-> NoPlan], o)

\* deleteAnswer without the check of the status: every management.Error is
\* taken for "not found"
deleteAnswerAnyStatus(res) ==
    [calls |-> <<Call("Delete", {}, EmptyMap, res)>>,
     ret |-> IF res.type = "management.Error" THEN Nil ELSE res,
     id |-> IF res.type = "management.Error" THEN "" ELSE id,
     exists |-> IF res = Nil THEN FALSE ELSE remoteExists,
     remote |-> IF res = Nil THEN {} ELSE remoteSecrets,
     plan |-> NoPlan]

\* deleteHook / deleteLogStream
deleteAnswer(res) ==
    [calls |-> <<Call("Delete", {}, EmptyMap, res)>>,
     ret |-> IF IsNotFound(res) THEN Nil ELSE res,
     id |-> IF IsNotFound(res) THEN "" ELSE id,
     exists |-> IF res = Nil THEN FALSE ELSE remoteExists,
     remote |-> IF res = Nil THEN {} ELSE remoteSecrets,
     plan |-> NoPlan]

deleteRun(o) == deleteAnswer(Answer(remoteExists, o, "Delete"))

\* the last handler ended in a reconciliation aborted by a failed mutation call
Aborted == plan.ran /\ plan.ret # Nil

\* What a handler leaves behind.  The framework keeps the resource while its
\* id is set and it was not destroyed, and saves the planned attributes with
\* it whether or not the handler returned an error (no handler uses partial
\* state mode).
Finish(name, r, secrets, destroyed) ==
    LET kept == r.id # "" /\ ~destroyed
    IN  /\ op' = name
        /\ calls' = r.calls
        /\ ret' = r.ret
        /\ id' = r.id
        /\ plan' = r.plan
        /\ remoteExists' = r.exists
        /\ remoteSecrets' = r.remote
        /\ inState' = kept
        /\ stateSecrets' = IF kept THEN secrets ELSE EmptyMap
        /\ UNCHANGED <<kind, prevAborted>>
        /\ UNCHANGED lsVars

createHook ==
    /\ kind = "hook" /\ op = "none" /\ ~inState
    /\ \E secrets \in Maps :
       \E o \in Answers({"Create", "RemoveSecrets", "UpdateSecrets", "CreateSecrets", "Read"},
                        {"keys", "nil", "err"}, HookLaterCalls) :
          \E r \in {createHookRun(secrets, o)} :
              /\ Canonical(o, r)
              /\ Finish("createHook", r, secrets, FALSE)
              /\ tainted' = (r.ret # Nil /\ r.id # "")

updateHook ==
    /\ kind = "hook" /\ op = "none" /\ inState /\ ~tainted
    /\ \E secrets \in Maps :
       \E o \in Answers({"Update", "RemoveSecrets", "UpdateSecrets", "CreateSecrets", "Read"},
                        {"keys", "nil", "err"},
                        IF remoteExists THEN HookLaterCalls ELSE {}) :
          \E r \in {updateHookRun(secrets, o)} :
              /\ Canonical(o, r)
              /\ Finish("updateHook", r, secrets, FALSE)
              /\ tainted' = FALSE

readHook ==
    /\ kind = "hook" /\ op = "none" /\ inState
    /\ \E o \in Answers({"Read"}, {"keys"}, {}) :
          \E r \in {readRun(o)} :
              /\ Canonical(o, r)
              /\ Finish("readHook", r, stateSecrets, FALSE)
              /\ tainted' = (tainted /\ r.id # "")

deleteHook ==
    /\ kind = "hook" /\ op = "none" /\ inState
    /\ \E o \in Answers({"Delete"}, {"keys"}, {}) :
          \E r \in {deleteRun(o)} :
              /\ Canonical(o, r)
              /\ Finish("deleteHook", r, stateSecrets, r.ret = Nil)
              /\ tainted' = (tainted /\ r.ret # Nil)

---------------------------------------------------------------------------
(* Log stream: the declared type and its validation *)

\* A type tag is a string, modelled as its characters, so that the case
\* folding of the validation is computed and not assumed.
TypeEventBridge == <<"e", "v", "e", "n", "t", "b", "r", "i", "d", "g", "e">>

TypeEventGrid == <<"e", "v", "e", "n", "t", "g", "r", "i", "d">>

TypeHTTP == <<"h", "t", "t", "p">>

TypeDatadog == <<"d", "a", "t", "a", "d", "o", "g">>

TypeSplunk == <<"s", "p", "l", "u", "n", "k">>

\* the slice given to validation.StringInSlice for "type"
ValidTypes == {TypeEventBridge, TypeEventGrid, TypeHTTP, TypeDatadog, TypeSplunk}

\* the type tags a configuration is tried with: the five tags, two of them in
\* another case, and a tag that is none of them
TypeInputs ==
    ValidTypes \cup {<<"H", "T", "T", "P">>, <<"S", "p", "l", "u", "n", "k">>,
                     <<"k", "a", "f", "k", "a">>}

UpperCase == <<"A", "B", "C", "D", "E", "F", "G", "H", "I", "J", "K", "L", "M",
               "N", "O", "P", "Q", "R", "S", "T", "U", "V", "W", "X", "Y", "Z">>

LowerCase == <<"a", "b", "c", "d", "e", "f", "g", "h", "i", "j", "k", "l", "m",
               "n", "o", "p", "q", "r", "s", "t", "u", "v", "w", "x", "y", "z">>

ToLowerChar(c) ==
    IF \E i \in DOMAIN UpperCase : UpperCase[i] = c
    THEN LowerCase[CHOOSE i \in DOMAIN UpperCase : UpperCase[i] = c]
    ELSE c

\* strings.ToLower
ToLower(str) == [i \in DOMAIN str |-> ToLowerChar(str[i])]

\* validation.StringInSlice(valid, ignoreCase)
StringInSlice(valid, ignoreCase, v) ==
    \E str \in valid : v = str \/ (ignoreCase /\ ToLower(v) = ToLower(str))

\* ValidateFunc of "type": StringInSlice(the five tags, true)
validateType(v) == StringInSlice(ValidTypes, TRUE, v)

---------------------------------------------------------------------------
(* Log stream: the sink block and the field accessors *)

\* the attributes of the sink block a configuration sets, per tag
EventBridgeAttrs == {"aws_account_id", "aws_region"}

EventGridAttrs == {"azure_subscription_id", "azure_resource_group", "azure_region"}

HTTPAttrs == {"http_content_format", "http_content_type", "http_endpoint",
              "http_authorization", "http_custom_headers"}

DatadogAttrs == {"datadog_region", "datadog_api_key"}

SplunkAttrs == {"splunk_domain", "splunk_token", "splunk_port", "splunk_secure"}

\* the attributes only the remote side sets (Computed)
ComputedAttrs == {"aws_partner_event_source", "azure_partner_topic"}

\* every attribute of the schema of "sink"
SinkSchema ==
    EventBridgeAttrs \cup EventGridAttrs \cup HTTPAttrs \cup DatadogAttrs
        \cup SplunkAttrs \cup ComputedAttrs

\* the declared attributes of the tag t
TagAttrs(t) ==
    IF t = TypeEventBridge THEN EventBridgeAttrs
    ELSE IF t = TypeEventGrid THEN EventGridAttrs
    ELSE IF t = TypeHTTP THEN HTTPAttrs
    ELSE IF t = TypeDatadog THEN DatadogAttrs
    ELSE IF t = TypeSplunk THEN SplunkAttrs
    ELSE {}

\* the attributes marked ForceNew
ForceNewAttrs == {"aws_account_id", "aws_region", "azure_subscription_id",
                  "azure_resource_group", "azure_region", "datadog_api_key"}

\* the zero value of an attribute
Zero(a) ==
    IF a = "http_custom_headers" THEN {}
    ELSE IF a = "splunk_secure" THEN FALSE
    ELSE ""

\* the values an attribute is tried with: its zero value and one other
Other(a) ==
    IF a = "http_custom_headers" THEN {"X-Header"}
    ELSE IF a = "splunk_secure" THEN TRUE
    ELSE a

\* the sink blocks over the attributes attrs: every attribute zero or set
BagOf(attrs, set) == [a \in attrs |-> IF a \in set THEN Other(a) ELSE Zero(a)]

Bags(attrs) == {BagOf(attrs, set) : set \in SUBSET attrs}

\* d.Get(key) on a sink block: the zero value when key is not set
Get(d, key) == IF key \in DOMAIN d THEN d[key] ELSE Zero(key)

\* String(d, key): a pointer to the value, nil (<<>>) when the value is not
\* set or is the zero value (GetOk)
String(d, key) == IF Get(d, key) = "" THEN <<>> ELSE <<Get(d, key)>>

\* Bool(d, key): a pointer to the value, nil when key is not set (GetOkExists)
Bool(d, key) == IF key \in DOMAIN d THEN <<d[key]>> ELSE <<>>

\* Set(d, key).List()
SetList(d, key) == Get(d, key)

\* auth0.StringValue and the GetX() accessors of a string field
StringValue(ptr) == IF ptr = <<>> THEN "" ELSE ptr[1]

\* the GetX() accessor of a bool field
BoolValue(ptr) == IF ptr = <<>> THEN FALSE ELSE ptr[1]

---------------------------------------------------------------------------
(* Log stream: expandLogStream and flattenLogStreamSink *)

\* ls.Sink == nil
NilSink == [variant |-> "nil"]

expandLogStreamEventBridgeSink(d) ==
    [variant            |-> "LogStreamSinkAmazonEventBridge",
     AccountID          |-> String(d, "aws_account_id"),
     Region             |-> String(d, "aws_region"),
     PartnerEventSource |-> String(d, "aws_partner_event_source")]

expandLogStreamEventGridSink(d) ==
    [variant        |-> "LogStreamSinkAzureEventGrid",
     SubscriptionID |-> String(d, "azure_subscription_id"),
     ResourceGroup  |-> String(d, "azure_resource_group"),
     Region         |-> String(d, "azure_region"),
     PartnerTopic   |-> String(d, "azure_partner_topic")]

expandLogStreamHTTPSink(d) ==
    [variant       |-> "LogStreamSinkHTTP",
     ContentFormat |-> String(d, "http_content_format"),
     ContentType   |-> String(d, "http_content_type"),
     Endpoint      |-> String(d, "http_endpoint"),
     Authorization |-> String(d, "http_authorization"),
     CustomHeaders |-> SetList(d, "http_custom_headers")]

expandLogStreamDatadogSink(d) ==
    [variant |-> "LogStreamSinkDatadog",
     Region  |-> String(d, "datadog_region"),
     APIKey  |-> String(d, "datadog_api_key")]

expandLogStreamSplunkSink(d) ==
    [variant |-> "LogStreamSinkSplunk",
     Domain  |-> String(d, "splunk_domain"),
     Token   |-> String(d, "splunk_token"),
     Port    |-> String(d, "splunk_port"),
     Secure  |-> Bool(d, "splunk_secure")]

\* expandLogStream with the case of the splunk tag missing
expandLogStreamNoSplunk(s, d, isNew) ==
    [Type   |-> IF isNew THEN <<s>> ELSE <<>>,
     Sink   |-> IF s = TypeEventBridge THEN expandLogStreamEventBridgeSink(d)
                ELSE IF s = TypeEventGrid THEN expandLogStreamEventGridSink(d)
                ELSE IF s = TypeHTTP THEN expandLogStreamHTTPSink(d)
                ELSE IF s = TypeDatadog THEN expandLogStreamDatadogSink(d)
                ELSE NilSink,
     warned |-> s \notin {TypeEventBridge, TypeEventGrid, TypeHTTP, TypeDatadog}]

\* expandLogStream for the declared type s and the one element d of "sink";
\* Type is sent only for a new resource; warned: the default case logged
expandLogStream(s, d, isNew) ==
    [Type   |-> IF isNew THEN <<s>> ELSE <<>>,
     Sink   |-> IF s = TypeEventBridge THEN expandLogStreamEventBridgeSink(d)
                ELSE IF s = TypeEventGrid THEN expandLogStreamEventGridSink(d)
                ELSE IF s = TypeHTTP THEN expandLogStreamHTTPSink(d)
                ELSE IF s = TypeDatadog THEN expandLogStreamDatadogSink(d)
                ELSE IF s = TypeSplunk THEN expandLogStreamSplunkSink(d)
                ELSE NilSink,
     warned |-> s \notin {TypeEventBridge, TypeEventGrid, TypeHTTP, TypeDatadog,
                          TypeSplunk}]

flattenLogStreamEventBridgeSink(o) ==
    ("aws_account_id" :> StringValue(o.AccountID))
        @@ ("aws_region" :> StringValue(o.Region))
        @@ ("aws_partner_event_source" :> StringValue(o.PartnerEventSource))

flattenLogStreamEventGridSink(o) ==
    ("azure_subscription_id" :> StringValue(o.SubscriptionID))
        @@ ("azure_resource_group" :> StringValue(o.ResourceGroup))
        @@ ("azure_region" :> StringValue(o.Region))
        @@ ("azure_partner_topic" :> StringValue(o.PartnerTopic))

flattenLogStreamHTTPSink(o) ==
    ("http_endpoint" :> StringValue(o.Endpoint))
        @@ ("http_contentFormat" :> StringValue(o.ContentFormat))
        @@ ("http_contentType" :> StringValue(o.ContentType))
        @@ ("http_authorization" :> StringValue(o.Authorization))
        @@ ("http_custom_headers" :> o.CustomHeaders)

flattenLogStreamDatadogSink(o) ==
    ("datadog_region" :> StringValue(o.Region))
        @@ ("datadog_api_key" :> StringValue(o.APIKey))

flattenLogStreamSplunkSink(o) ==
    ("splunk_domain" :> StringValue(o.Domain))
        @@ ("splunk_token" :> StringValue(o.Token))
        @@ ("splunk_port" :> StringValue(o.Port))
        @@ ("splunk_secure" :> BoolValue(o.Secure))

\* var m interface{} left nil: no case of the type switch matched
NilMap == [a \in {} |-> ""]

\* flattenLogStreamSink: the one element of the list it returns
flattenLogStreamSink(sink) ==
    IF sink.variant = "LogStreamSinkAmazonEventBridge"
    THEN flattenLogStreamEventBridgeSink(sink)
    ELSE IF sink.variant = "LogStreamSinkAzureEventGrid"
    THEN flattenLogStreamEventGridSink(sink)
    ELSE IF sink.variant = "LogStreamSinkHTTP" THEN flattenLogStreamHTTPSink(sink)
    ELSE IF sink.variant = "LogStreamSinkDatadog" THEN flattenLogStreamDatadogSink(sink)
    ELSE IF sink.variant = "LogStreamSinkSplunk" THEN flattenLogStreamSplunkSink(sink)
    ELSE NilMap

---------------------------------------------------------------------------
(* Log stream: handlers *)

\* no log stream: nothing declared, nothing remote, nothing in the state
NoLogStream == [type |-> <<>>, sink |-> NilMap]

NoBuilt == [Type |-> <<>>, Sink |-> NilSink, warned |-> FALSE]

NoFlat == [set |-> FALSE, m |-> NilMap]

\* the name the remote side gives the partner event source or topic
PartnerName == "auth0-partner"

\* the sink the remote side keeps for a sink it was sent: the computed field
\* is the remote side's
remoteSink(sink) ==
    IF sink.variant = "LogStreamSinkAmazonEventBridge"
    THEN [sink EXCEPT !.PartnerEventSource = <<PartnerName>>]
    ELSE IF sink.variant = "LogStreamSinkAzureEventGrid"
    THEN [sink EXCEPT !.PartnerTopic = <<PartnerName>>]
    ELSE sink

\* the remote entity after LogStream.Create or LogStream.Update of ls; the
\* type is the one sent on creation
remoteLogStream(ls, before) ==
    [type |-> IF ls.Type = <<>> THEN before.type ELSE ls.Type[1],
     sink |-> remoteSink(ls.Sink)]

\* the one element of "sink" the handler reads: the declared block, and the
\* computed attributes the state holds
sinkData(bag, state) ==
    [a \in DOMAIN bag \cup (DOMAIN state.sink \cap ComputedAttrs) |->
        IF a \in DOMAIN bag THEN bag[a] ELSE state.sink[a]]

\* d.Set("sink", []interface{}{m}): a key that is no attribute of the schema
\* makes Set fail, the handler ignores the error and the block stays as it was
setSink(state, m) ==
    IF DOMAIN m \subseteq SinkSchema THEN [state EXCEPT !.sink = m] ELSE state

\* the last call of run r is a Read that found the entity
readOk(r) ==
    /\ Len(r.calls) > 0
    /\ r.calls[Len(r.calls)].api = "Read"
    /\ r.calls[Len(r.calls)].res = Nil

\* What a log stream handler leaves behind: remote is the remote entity after
\* its calls, planned the "type" and "sink" the resource data held when the
\* handler was called; readLogStream sets both from the remote entity.
FinishLogStream(name, r, cfg, remote, planned, ls, destroyed) ==
    LET kept == r.id # "" /\ ~destroyed
        m    == flattenLogStreamSink(remote.sink)
    IN  /\ op' = name
        /\ calls' = r.calls
        /\ ret' = r.ret
        /\ id' = r.id
        /\ remoteExists' = r.exists
        /\ inState' = kept
        /\ config' = cfg
        /\ lsRemote' = IF r.exists THEN remote ELSE NoLogStream
        /\ built' = ls
        /\ flat' = IF readOk(r) THEN [set |-> TRUE, m |-> m] ELSE NoFlat
        /\ lsState' = IF ~kept THEN NoLogStream
                      ELSE IF readOk(r) THEN setSink([planned EXCEPT !.type = remote.type], m)
                      ELSE planned
        /\ UNCHANGED kind
        /\ UNCHANGED hookVars

\* createLogStream with the remote answers o, from a fresh ResourceData
createLogStreamRun(o) ==
    settle(readResource(IF o.failAt = "Create"
                        THEN firstCall("Create", o.err, "", FALSE, {})
                        ELSE firstCall("Create", Nil, NewId, TRUE, {}),
                        o), o)

\* updateLogStream with the remote answers o
updateLogStreamRun(o) ==
    settle(readResource(firstCall("Update", Answer(remoteExists, o, "Update"),
                                  id, remoteExists, {}),
                        o), o)

\* the first call of run r, the remote create or update, succeeded
firstOk(r) == r.calls[1].res = Nil

createLogStream ==
    /\ kind = "log_stream" /\ op = "none" /\ ~inState
    /\ \E t \in TypeInputs :
       /\ validateType(t)
       /\ \E bag \in Bags(TagAttrs(ToLower(t))) :
          \E o \in Answers({"Create", "Read"}, {"keys"}, {"Read"}) :
          \E r \in {createLogStreamRun(o)} :
          \E ls \in {expandLogStream(t, sinkData(bag, NoLogStream), TRUE)} :
              /\ Canonical(o, r)
              /\ FinishLogStream("createLogStream", r, [type |-> t, sink |-> bag],
                                 IF firstOk(r) THEN remoteLogStream(ls, NoLogStream)
                                 ELSE lsRemote,
                                 [type |-> t, sink |-> sinkData(bag, NoLogStream)],
                                 ls, FALSE)
              /\ tainted' = (r.ret # Nil /\ r.id # "")

\* "type" and the ForceNew attributes of the block stay as declared: a change
\* of one of them replaces the resource
updateLogStream ==
    /\ kind = "log_stream" /\ op = "none" /\ inState /\ ~tainted
    /\ \E bag \in Bags(DOMAIN config.sink) :
       /\ \A a \in DOMAIN bag \cap ForceNewAttrs : bag[a] = config.sink[a]
       /\ \E o \in Answers({"Update", "Read"}, {"keys"},
                          IF remoteExists THEN {"Read"} ELSE {}) :
          \E r \in {updateLogStreamRun(o)} :
          \E ls \in {expandLogStream(lsState.type, sinkData(bag, lsState), FALSE)} :
              /\ Canonical(o, r)
              /\ FinishLogStream("updateLogStream", r,
                                 [type |-> config.type, sink |-> bag],
                                 IF firstOk(r) THEN remoteLogStream(ls, lsRemote)
                                 ELSE lsRemote,
                                 [lsState EXCEPT !.sink = sinkData(bag, lsState)],
                                 ls, FALSE)
              /\ tainted' = FALSE

readLogStream ==
    /\ kind = "log_stream" /\ op = "none" /\ inState
    /\ \E o \in Answers({"Read"}, {"keys"}, {}) :
       \E r \in {readRun(o)} :
           /\ Canonical(o, r)
           /\ FinishLogStream("readLogStream", r, config, lsRemote, lsState,
                              NoBuilt, FALSE)
           /\ tainted' = (tainted /\ r.id # "")

deleteLogStream ==
    /\ kind = "log_stream" /\ op = "none" /\ inState
    /\ \E o \in Answers({"Delete"}, {"keys"}, {}) :
       \E r \in {deleteRun(o)} :
           /\ Canonical(o, r)
           /\ FinishLogStream("deleteLogStream", r, config, lsRemote, lsState,
                              NoBuilt, r.ret = Nil)
           /\ tainted' = (tainted /\ r.ret # Nil)

\* The handler has returned and the framework has taken its result: the call
\* log of the finished handler is dropped.  What stays is whether an apply
\* (Create or Update) ended in an aborted reconciliation; a refresh in
\* between does not change that.
handlerReturned ==
    /\ op # "none"
    /\ op' = "none"
    /\ calls' = <<>>
    /\ ret' = Nil
    /\ plan' = NoPlan
    /\ prevAborted' = IF op \in {"createHook", "updateHook"} THEN Aborted
                      ELSE IF inState THEN prevAborted ELSE FALSE
    /\ built' = NoBuilt
    /\ flat' = NoFlat
    /\ config' = IF inState THEN config ELSE NoLogStream
    /\ id' = IF inState THEN id ELSE ""
    /\ UNCHANGED <<kind, inState, tainted, remoteExists, remoteSecrets, stateSecrets,
                   lsRemote, lsState>>

\* the remote entity is removed out of band
outOfBandDelete ==
    /\ op = "none"
    /\ remoteExists
    /\ remoteExists' = FALSE
    /\ remoteSecrets' = {}
    /\ lsRemote' = NoLogStream
    /\ UNCHANGED <<kind, id, inState, tainted, stateSecrets, op, calls, ret, plan,
                   prevAborted, config, lsState, built, flat>>

---------------------------------------------------------------------------
(* Specification *)

Init ==
    /\ kind \in {"hook", "log_stream"}
    /\ id = ""
    /\ inState = FALSE
    /\ tainted = FALSE
    /\ remoteExists = FALSE
    /\ remoteSecrets = {}
    /\ stateSecrets = EmptyMap
    /\ op = "none"
    /\ calls = <<>>
    /\ ret = Nil
    /\ plan = NoPlan
    /\ prevAborted = FALSE
    /\ config = NoLogStream
    /\ lsRemote = NoLogStream
    /\ lsState = NoLogStream
    /\ built = NoBuilt
    /\ flat = NoFlat

Next ==
    \/ createHook
    \/ updateHook
    \/ readHook
    \/ deleteHook
    \/ createLogStream
    \/ updateLogStream
    \/ readLogStream
    \/ deleteLogStream
    \/ handlerReturned
    \/ outOfBandDelete

Spec == Init /\ [][Next]_vars

---------------------------------------------------------------------------
(* Hook: properties of the secret reconciliation *)

Mutations == {"RemoveSecrets", "UpdateSecrets", "CreateSecrets"}

IsMutation(c) == c.api \in Mutations

\* the mutation calls of the last handler, in the order issued
MutationCalls == SelectSeq(calls, IsMutation)

Rank(api) == IF api = "RemoveSecrets" THEN 1 ELSE IF api = "UpdateSecrets" THEN 2 ELSE 3

Issued(api) == \E i \in DOMAIN calls : calls[i].api = api

\* C1: when the remote key set R was read, the reconciliation classifies the
\* desired map D as updates = keys of D in R, additions = keys of D not in R,
\* removals = keys of R not in D; the three sets are pairwise disjoint and
\* every added or updated key carries D's value, in the plan and in the calls.
C1_Classification ==
    (plan.ran /\ plan.read = "keys") =>
        LET R == plan.keysBefore
            D == plan.desired
        IN  /\ DOMAIN plan.update = {k \in DOMAIN D : k \in R}
            /\ DOMAIN plan.add = {k \in DOMAIN D : k \notin R}
            /\ plan.remove = {k \in R : k \notin DOMAIN D}
            /\ DOMAIN plan.update \cap DOMAIN plan.add = {}
            /\ DOMAIN plan.update \cap plan.remove = {}
            /\ DOMAIN plan.add \cap plan.remove = {}
            /\ \A k \in DOMAIN plan.update : plan.update[k] = D[k]
            /\ \A k \in DOMAIN plan.add : plan.add[k] = D[k]
            /\ \A i \in DOMAIN calls :
                  /\ calls[i].api = "UpdateSecrets" => calls[i].vals = plan.update
                  /\ calls[i].api = "CreateSecrets" => calls[i].vals = plan.add
                  /\ calls[i].api = "RemoveSecrets" => calls[i].keys = plan.remove

\* a reconciliation with a removal, an update and an addition at once
C1_Witness ==
    /\ plan.ran /\ plan.read = "keys"
    /\ plan.remove # {} /\ plan.update # EmptyMap /\ plan.add # EmptyMap
    /\ Issued("CreateSecrets")

\* C2 as stated: a reconciliation that ran and returned no error leaves the
\* remote key set equal to the desired key set, whatever the read answered.
C2_Original ==
    (plan.ran /\ plan.ret = Nil) => plan.keysAfter = DOMAIN plan.desired

\* C2 amended: a reconciliation that ran, read the remote key set and returned
\* no error leaves the remote key set equal to the desired key set.
C2_ConvergesWhenRead ==
    (plan.ran /\ plan.ret = Nil /\ plan.read = "keys") =>
        plan.keysAfter = DOMAIN plan.desired

\* a successful reconciliation that had keys to remove and keys to add
C2_Witness ==
    /\ plan.ran /\ plan.ret = Nil /\ plan.read = "keys"
    /\ plan.remove # {} /\ plan.add # EmptyMap
    /\ plan.keysAfter = DOMAIN plan.desired
    /\ remoteSecrets = DOMAIN plan.desired

\* C3: the mutation calls of one handler come in the order RemoveSecrets,
\* UpdateSecrets, CreateSecrets, each at most once and never with an empty key
\* set; an empty desired map against a read, non-empty remote set gives exactly
\* one RemoveSecrets with all remote keys, and an empty desired map against an
\* empty remote set gives no mutation call.
C3_CallOrder ==
    LET m == MutationCalls
    IN  /\ \A i, j \in DOMAIN m : i < j => Rank(m[i].api) < Rank(m[j].api)
        /\ \A i \in DOMAIN m : m[i].keys # {}
        /\ (plan.ran /\ plan.read = "keys" /\ plan.desired = EmptyMap
                /\ plan.keysBefore # {})
              => /\ Len(m) = 1
                 /\ m[1].api = "RemoveSecrets"
                 /\ m[1].keys = plan.keysBefore
        /\ (plan.ran /\ plan.desired = EmptyMap /\ plan.keysBefore = {})
              => m = <<>>

\* all three calls issued by one reconciliation
C3_Witness ==
    /\ Len(MutationCalls) = 3
    /\ MutationCalls[1].api = "RemoveSecrets"
    /\ MutationCalls[3].api = "CreateSecrets"

\* C4: a mutation call that fails is the last call of the handler (no later
\* mutation call, no final Read) and its error is what createHook or
\* updateHook returns.
C4_AbortOnFailure ==
    \A i \in DOMAIN calls :
        (IsMutation(calls[i]) /\ calls[i].res # Nil) =>
            /\ i = Len(calls)
            /\ ret = calls[i].res
            /\ ~Issued("Read")

\* RemoveSecrets failed while an update and an addition were still to come
C4_Witness ==
    /\ op = "updateHook"
    /\ \E i \in DOMAIN calls : calls[i].api = "RemoveSecrets" /\ calls[i].res = TransportError
    /\ plan.update # EmptyMap /\ plan.add # EmptyMap
    /\ ret = TransportError

\* C5 as stated: the apply that follows an aborted reconciliation, on the same
\* hook with the same desired map, and that returns no error and found the
\* hook in its final read, ends with the remote key set equal to the desired
\* key set, removes no desired key and adds no key that exists remotely.
C5_RetryConverges ==
    (op = "updateHook" /\ prevAborted /\ ~plan.hasChange /\ ret = Nil /\ id # "") =>
        /\ remoteSecrets = DOMAIN plan.desired
        /\ \A i \in DOMAIN calls :
              /\ calls[i].api = "RemoveSecrets" => calls[i].keys \cap DOMAIN plan.desired = {}
              /\ calls[i].api = "CreateSecrets" => calls[i].keys \cap plan.keysBefore = {}

\* C6: a reconciliation on a new hook, or one whose read of the remote keys
\* failed or returned nothing, classifies every desired entry as an addition
\* and issues no RemoveSecrets and no UpdateSecrets.
C6_UnknownAddsAll ==
    (plan.ran /\ (plan.isNew \/ plan.read # "keys")) =>
        /\ plan.add = plan.desired
        /\ plan.remove = {}
        /\ plan.update = EmptyMap
        /\ ~Issued("RemoveSecrets")
        /\ ~Issued("UpdateSecrets")
        /\ \A i \in DOMAIN calls :
              calls[i].api = "CreateSecrets" => calls[i].vals = plan.desired

\* the read failed while the remote side held a desired key and another key
C6_Witness ==
    /\ plan.ran /\ ~plan.isNew /\ plan.read # "keys"
    /\ plan.keysBefore \cap DOMAIN plan.desired # {}
    /\ plan.keysBefore \ DOMAIN plan.desired # {}
    /\ Issued("CreateSecrets")

\* the plan a second reconciliation of the same desired map computes against
\* the remote key set the last one left
SecondPlan == reconcile(plan.keysAfter, plan.desired)

\* a reconciliation computed from a read key set was applied in full
PlanApplied == plan.ran /\ plan.read = "keys" /\ plan.ret = Nil

\* C7 as stated: the second plan is empty.
C7_Original ==
    PlanApplied =>
        /\ SecondPlan.remove = {}
        /\ SecondPlan.update = EmptyMap
        /\ SecondPlan.add = EmptyMap

\* C7 amended: after a reconciliation that ran and returned no error, the
\* second plan has nothing to add and its updates are all the desired
\* entries; it has nothing to remove when the first plan was computed from a
\* read key set, and when the read failed or returned nothing (add-only plan)
\* it removes exactly the remote keys that are not desired, which the first
\* plan left.
C7_SecondPlanUpdatesOnly ==
    (plan.ran /\ plan.ret = Nil) =>
        /\ SecondPlan.add = EmptyMap
        /\ SecondPlan.update = plan.desired
        /\ plan.read = "keys" => SecondPlan.remove = {}
        /\ plan.read # "keys"
              => SecondPlan.remove = plan.keysBefore \ DOMAIN plan.desired

\* a plan with removals and additions was applied for a non-empty desired map
C7_Witness ==
    /\ PlanApplied
    /\ plan.remove # {} /\ plan.add # EmptyMap /\ plan.update # EmptyMap
    /\ SecondPlan.update = plan.desired

\* the calls about secrets: the read of the remote keys and the three mutations
SecretsCalls == Mutations \cup {"Secrets"}

\* C11: an updateHook whose "secrets" map is the one of the last apply (or
\* whose remote update failed) issues no Secrets, RemoveSecrets, UpdateSecrets
\* or CreateSecrets call, does not run the reconciliation and leaves the
\* remote secrets as they were (they are gone only with a hook that was
\* removed out of band before the final read, which is then answered 404); a
\* handler that issues a call about secrets is createHook or an updateHook
\* whose "secrets" map changed.
C11_NoSecretsCallWhenUnchanged ==
    [][(op = "none" /\ op' \in {"createHook", "updateHook"})
          => /\ (op' = "updateHook"
                    /\ (calls'[1].res # Nil \/ plan'.desired = stateSecrets))
                 => /\ \A i \in DOMAIN calls' : calls'[i].api \notin SecretsCalls
                    /\ ~plan'.ran
                    /\ \/ remoteSecrets' = remoteSecrets
                       \/ /\ calls'[Len(calls')] = Call("Read", {}, EmptyMap, NotFound)
                          /\ ~remoteExists'
             /\ (\E i \in DOMAIN calls' : calls'[i].api \in SecretsCalls)
                 => /\ plan'.ran
                    /\ \/ (op' = "createHook" /\ plan'.isNew)
                       \/ (op' = "updateHook" /\ plan'.hasChange
                              /\ plan'.desired # stateSecrets)]_vars

\* an update with the secrets of the last apply, on a hook that has secrets
\* remotely: the remote update and the read only
C11_Witness ==
    /\ op = "updateHook" /\ ret = Nil
    /\ ~plan.ran /\ plan.desired # EmptyMap
    /\ remoteSecrets # {}
    /\ Len(calls) = 2
    /\ calls[1].api = "Update" /\ calls[2].api = "Read"

---------------------------------------------------------------------------
(* Both resources: "not found" *)

\* C8: for the hook and the log stream, a Read or Delete handler whose remote
\* call is answered 404 returns no error and clears the id; one whose remote
\* call is answered with another error returns that error and leaves the id
\* as it was.
C8_NotFoundIsAbsent ==
    [][(op = "none" /\ op' \in {"readHook", "deleteHook", "readLogStream",
                                 "deleteLogStream"})
          => /\ calls'[1].res = NotFound => (ret' = Nil /\ id' = "")
             /\ calls'[1].res \notin {Nil, NotFound}
                   => (ret' = calls'[1].res /\ id' = id /\ id' # "")]_vars

\* a log stream removed out of band is deleted without an error
C8_Witness ==
    /\ op = "deleteLogStream"
    /\ calls[1].api = "Delete" /\ calls[1].res = NotFound
    /\ ret = Nil /\ id = ""

---------------------------------------------------------------------------
(* Both resources: order of the remote calls of Create and Update *)

CreateOps == {"createHook", "createLogStream"}

HookApplyOps == {"createHook", "updateHook"}

\* C12: a Create or Update handler issues first its one remote Create or
\* Update, then (hooks only) the calls of the secret reconciliation, then the
\* Read, which is its last call and is issued whenever the handler returns no
\* error; a Create starts without an id and has one afterwards only if the
\* remote Create succeeded; when the remote Create or Update fails the
\* handler returns that error, the id is as it was and there is no call about
\* secrets and no Read.
C12_ApplyCallOrder ==
    [][(op = "none" /\ op' \in CreateOps \cup {"updateHook", "updateLogStream"})
          => LET c == calls'
                 n == Len(calls')
             IN  /\ n >= 1
                 /\ c[1].api = IF op' \in CreateOps THEN "Create" ELSE "Update"
                 /\ \A i \in 2..n : c[i].api \in SecretsCalls \cup {"Read"}
                 /\ \A i \in 1..n : c[i].api = "Read" => i = n
                 /\ \A i \in 1..n : c[i].api \in SecretsCalls => op' \in HookApplyOps
                 /\ plan'.ran => (n >= 2 /\ c[2].api = "Secrets")
                 /\ ret' = Nil => c[n].api = "Read"
                 /\ c[1].res # Nil => (n = 1 /\ ret' = c[1].res /\ id' = id)
                 /\ op' \in CreateOps
                       => /\ id = ""
                          /\ id' # "" => (c[1].res = Nil /\ id' = NewId)]_vars

\* a createHook with secrets: Create, the read of the keys, the addition, Read
C12_Witness ==
    /\ op = "createHook" /\ ret = Nil /\ id = NewId
    /\ Len(calls) = 4
    /\ calls[1].api = "Create" /\ calls[2].api = "Secrets"
    /\ calls[3].api = "CreateSecrets" /\ calls[4].api = "Read"

---------------------------------------------------------------------------
(* Log stream: properties of the variant mapping *)

LogStreamApply == op \in {"createLogStream", "updateLogStream"}

\* the computed attribute of the tag t, if it has one
TagComputed(t) ==
    IF t = TypeEventBridge THEN {"aws_partner_event_source"}
    ELSE IF t = TypeEventGrid THEN {"azure_partner_topic"}
    ELSE {}

\* m gives every declared attribute of the tag t the value the block bag
\* gives it, and has no other key than the attributes of t
SameBag(t, bag, m) ==
    /\ \A a \in TagAttrs(t) : a \in DOMAIN m /\ m[a] = bag[a]
    /\ DOMAIN m \subseteq TagAttrs(t) \cup TagComputed(t)

\* C9: for each of the five tags, flattening the sink expandLogStream built
\* from a block of that tag gives back the block under the declared names and
\* no attribute of another tag; what a handler reads back from the remote
\* side does too.
C9_RoundTrip ==
    (LogStreamApply /\ config.type \in ValidTypes) =>
        /\ SameBag(config.type, config.sink, flattenLogStreamSink(built.Sink))
        /\ flat.set => SameBag(config.type, config.sink, flat.m)

\* C10: expandLogStream builds the sink variant of the declared tag for each
\* of the five tags; for any other tag it leaves the sink nil and logs the
\* warning, and the handler goes on to its remote call and returns an error
\* only if a remote call failed.
C10_OneVariantByTag ==
    LogStreamApply =>
        LET t == config.type
        IN  /\ t = TypeEventBridge
                 => built.Sink.variant = "LogStreamSinkAmazonEventBridge"
            /\ t = TypeEventGrid => built.Sink.variant = "LogStreamSinkAzureEventGrid"
            /\ t = TypeHTTP => built.Sink.variant = "LogStreamSinkHTTP"
            /\ t = TypeDatadog => built.Sink.variant = "LogStreamSinkDatadog"
            /\ t = TypeSplunk => built.Sink.variant = "LogStreamSinkSplunk"
            /\ t \in ValidTypes => ~built.warned
            /\ t \notin ValidTypes
                 => /\ built.Sink = NilSink
                    /\ built.warned
                    /\ calls[1].api \in {"Create", "Update"}
                    /\ (\A i \in DOMAIN calls : calls[i].res = Nil) => ret = Nil

\* a tag the validation accepts in another case: no sink, a warning, no error
C10_Witness ==
    /\ op = "createLogStream"
    /\ config.type = <<"H", "T", "T", "P">>
    /\ built.Sink = NilSink /\ built.warned
    /\ Len(calls) = 2 /\ ret = Nil /\ id = NewId

=============================================================================
